---- MODULE Spec2Model ----
(***************************************************************************)
(* Model of generated-projects/15673e95-.../main.py: a FastAPI bootstrap.  *)
(*                                                                         *)
(* `python main.py` executes the module body as __main__ (lines 1-43),     *)
(* then calls uvicorn.run("main:app", host, port, reload=True) (45-51).    *)
(* With reload=True uvicorn binds the socket in that process, which then   *)
(* only supervises: it spawns a worker process that imports main again     *)
(* (lines 1-43, __name__ = "main"), runs the lifespan startup, listens on  *)
(* the inherited socket and serves.  On a file change the supervisor       *)
(* terminates the worker and spawns a new one; on a signal it terminates   *)
(* the worker and returns, and uvicorn.run skips its startup-failure exit  *)
(* when reloading.  Processes: "main" (entry point) and "worker".          *)
(*                                                                         *)
(* Signals are delivered while the worker is serving or has exited; a      *)
(* worker shut down gracefully runs the lifespan teardown.                 *)
(***************************************************************************)
EXTENDS Integers, Sequences, FiniteSets, TLC

\* ---------------------------------------------------------------- bounds
MaxLen == 3          \* longest PORT string drawn
MaxWorkers == 2      \* worker processes one run of the supervisor spawns
NumTables == 2       \* tables known to Base.metadata

\* ------------------------------------------------------- program constants
DefaultPort == 8000
Host == "0.0.0.0"
ApiPrefix == "/api/v1"

Procs == {"main", "worker"}
Tables == 1..NumTables

\* ------------------------------------------------- strings and int(str)
Digits == <<"0", "1", "2", "3", "4", "5", "6", "7", "8", "9">>
Chars == {"7", "0", "-", " ", "x"}

RECURSIVE StringsUpTo(_)
StringsUpTo(n) ==
    IF n = 0 THEN {<<>>}
    ELSE LET shorter == StringsUpTo(n - 1)
         IN shorter \cup {Append(s, c) : s \in {t \in shorter : Len(t) = n - 1}, c \in Chars}

\* An environment variable: unset, or set to a string.
Unset == [set |-> FALSE, val |-> <<>>]
SetTo(s) == [set |-> TRUE, val |-> s]

IsDigit(c) == \E i \in 1..10 : Digits[i] = c
DigitVal(c) == (CHOOSE i \in 1..10 : Digits[i] = c) - 1

RECURSIVE LStrip(_)
LStrip(s) == IF s # <<>> /\ Head(s) = " " THEN LStrip(Tail(s)) ELSE s
RECURSIVE RStrip(_)
RStrip(s) == IF s # <<>> /\ s[Len(s)] = " " THEN RStrip(SubSeq(s, 1, Len(s) - 1)) ELSE s
Strip(s) == RStrip(LStrip(s))

RECURSIVE DigitsValue(_)
DigitsValue(s) ==
    IF s = <<>> THEN 0
    ELSE 10 * DigitsValue(SubSeq(s, 1, Len(s) - 1)) + DigitVal(s[Len(s)])

AllDigits(s) == s # <<>> /\ \A i \in 1..Len(s) : IsDigit(s[i])

\* Python's int(str): surrounding whitespace stripped, an optional sign, then
\* one or more decimal digits; anything else raises ValueError.
IsIntLiteral(s) ==
    LET t == Strip(s)
    IN  IF t # <<>> /\ Head(t) \in {"-", "+"} THEN AllDigits(Tail(t)) ELSE AllDigits(t)

IntOfStr(s) ==
    LET t == Strip(s)
    IN  IF Head(t) = "-" THEN 0 - DigitsValue(Tail(t))
        ELSE IF Head(t) = "+" THEN DigitsValue(Tail(t))
        ELSE DigitsValue(t)

\* os.getenv("PORT", 8000): the string when set, the int 8000 when unset.
\* int(...) of it: [ok, value]; ok = FALSE is the ValueError.
PortArg_FixedDefault(env) == [ok |-> TRUE, value |-> DefaultPort]
PortArg(env) ==
    IF ~env.set THEN [ok |-> TRUE, value |-> DefaultPort]
    ELSE IF IsIntLiteral(env.val) THEN [ok |-> TRUE, value |-> IntOfStr(env.val)]
    ELSE [ok |-> FALSE, value |-> 0]

\* str(n) for an integer, used to state what a decimal PORT string denotes.
RECURSIVE NatStr(_)
NatStr(n) == IF n < 10 THEN <<Digits[n + 1]>> ELSE Append(NatStr(n \div 10), Digits[(n % 10) + 1])
DecStr(n) == IF n < 0 THEN <<"-">> \o NatStr(0 - n) ELSE NatStr(n)

\* ------------------------------------------------------ the application
\* No application object yet (before line 18 has run in a process).
NoApp == [exists |-> FALSE, title |-> "", version |-> "", lifespan |-> FALSE,
          middleware |-> <<>>, routes |-> <<>>]

\* FastAPI(title=..., description=..., version="1.0.0", lifespan=lifespan)
FastAPI_NoLifespan ==
    [exists |-> TRUE, title |-> "FastAPI Backend", version |-> "1.0.0",
     lifespan |-> FALSE, middleware |-> <<>>, routes |-> <<>>]
FastAPI ==
    [exists |-> TRUE, title |-> "FastAPI Backend", version |-> "1.0.0",
     lifespan |-> TRUE, middleware |-> <<>>, routes |-> <<>>]

\* The CORSMiddleware options of lines 26-32.
CorsConfig_NoCredentials ==
    [kind |-> "CORSMiddleware", allow_origins |-> {"*"}, allow_credentials |-> FALSE,
     allow_methods |-> {"*"}, allow_headers |-> {"*"}]
CorsConfig ==
    [kind |-> "CORSMiddleware", allow_origins |-> {"*"}, allow_credentials |-> TRUE,
     allow_methods |-> {"*"}, allow_headers |-> {"*"}]

\* app.add_middleware: the new middleware becomes the outermost user middleware.
add_middleware(a, cfg) == [a EXCEPT !.middleware = <<cfg>> \o @]

\* routers.users.router: the routes of the users module (its handlers are
\* outside main.py; a call may succeed, raise HTTPException, or raise an
\* unhandled exception).
users_router == <<[method |-> "GET", path |-> "/users", handler |-> "users"]>>

\* app.include_router(router, prefix): every route of the router is appended
\* with the prefix put before its path.
include_router_Skipped(a, router, prefix) == a
include_router(a, router, prefix) ==
    [a EXCEPT !.routes =
        @ \o [i \in 1..Len(router) |-> [router[i] EXCEPT !.path = prefix \o @]]]

\* @app.get(path): appends a GET route for the handler.
get(a, path, handler) ==
    [a EXCEPT !.routes = Append(@, [method |-> "GET", path |-> path, handler |-> handler])]

\* lifespan: what runs before the yield (startup) and after it (teardown).
lifespan_CreateAfterYield == [startup |-> <<>>, teardown |-> <<"create_all">>]
lifespan_DropFirst == [startup |-> <<"drop_all", "create_all">>, teardown |-> <<>>]
lifespan == [startup |-> <<"create_all">>, teardown |-> <<>>]

\* The handlers of lines 37-43: status, JSON body, and whether the handler
\* touches the database.
root_WrongBody ==
    [status |-> 200, body |-> [message |-> "FastAPI Backend is running"], db |-> FALSE]
root ==
    [status |-> 200, body |-> [message |-> "FastAPI Backend is running!"], db |-> FALSE]

health_check_WithDbCheck ==
    [status |-> 200, body |-> [status |-> "OK", message |-> "API is healthy"], db |-> TRUE]
health_check ==
    [status |-> 200, body |-> [status |-> "OK", message |-> "API is healthy"], db |-> FALSE]

\* The module body of lines 18-43 done: the fully configured application.
Configured(a) ==
    /\ a.exists
    /\ \E i \in 1..Len(a.middleware) :
          a.middleware[i].kind = "CORSMiddleware" /\ "*" \in a.middleware[i].allow_origins
    /\ \E i \in 1..Len(a.routes) :
          a.routes[i] = [method |-> "GET", path |-> ApiPrefix \o "/users", handler |-> "users"]
    /\ \E i \in 1..Len(a.routes) :
          a.routes[i] = [method |-> "GET", path |-> "/", handler |-> "root"]
    /\ \E i \in 1..Len(a.routes) :
          a.routes[i] = [method |-> "GET", path |-> "/health", handler |-> "health_check"]

\* ------------------------------------------------------------ persistence
\* A table of the database is absent, present with an older definition
\* ("legacy"), or present as Base.metadata defines it ("current").
TableStates == {"absent", "legacy", "current"}

\* Base.metadata.create_all(bind=engine): creates the tables that do not
\* exist and leaves the others alone; fails only when the database cannot
\* be reached.
create_all(sch, up) ==
    IF ~up THEN [ok |-> FALSE, error |-> "OperationalError", schema |-> sch]
    ELSE [ok |-> TRUE, error |-> "",
          schema |-> [t \in Tables |-> IF sch[t] = "absent" THEN "current" ELSE sch[t]]]

\* Base.metadata.drop_all(bind=engine): not called by main.py; the variant
\* lifespan_DropFirst uses it.
drop_all(sch, up) ==
    IF ~up THEN [ok |-> FALSE, error |-> "OperationalError", schema |-> sch]
    ELSE [ok |-> TRUE, error |-> "", schema |-> [t \in Tables |-> "absent"]]

\* The statements of one phase of the lifespan, run in order; the first
\* failure ends the phase.  creates counts the create_all calls made.
RECURSIVE RunOps(_, _, _)
RunOps(ops, sch, up) ==
    IF ops = <<>> THEN [ok |-> TRUE, error |-> "", schema |-> sch, creates |-> 0]
    ELSE LET r == IF Head(ops) = "create_all" THEN create_all(sch, up) ELSE drop_all(sch, up)
             n == IF Head(ops) = "create_all" THEN 1 ELSE 0
         IN  IF ~r.ok THEN [ok |-> FALSE, error |-> r.error, schema |-> r.schema, creates |-> n]
             ELSE LET rest == RunOps(Tail(ops), r.schema, up)
                  IN  [rest EXCEPT !.creates = @ + n]

\* --------------------------------------------------------------- requests
Methods == {"GET", "POST", "OPTIONS"}
Paths == {"/", "/health", ApiPrefix \o "/users", "/missing"}
Origins == {"", "https://a.example"}          \* "" : no Origin header
\* Access-Control-Request-* headers sent: none, -Method, or -Method and -Headers.
AcrHeaders == {"none", "method", "method+headers"}

Requests ==
    [method : Methods, path : Paths, query : {"", "x=1"}, origin : Origins,
     cookie : BOOLEAN, acr : AcrHeaders]

\* What a call of the users handler may do.
UsersOutcomes == {"ok", "http_error", "exception"}

\* The router behind the middleware: the first route whose path matches and
\* whose method matches handles the request; a path that matches with another
\* method gives 405, no path 404.  HTTPException is turned into its response
\* here; raised = TRUE is an exception nothing below the middleware handles.
Dispatch(a, req, outcome) ==
    LET onPath == {i \in 1..Len(a.routes) : a.routes[i].path = req.path}
        full == {i \in onPath : a.routes[i].method = req.method}
    IN  IF full # {} THEN
            LET h == a.routes[CHOOSE i \in full : \A j \in full : i <= j].handler
            IN  CASE h = "root" -> root @@ [raised |-> FALSE]
                  [] h = "health_check" -> health_check @@ [raised |-> FALSE]
                  [] OTHER ->
                       CASE outcome = "ok" ->
                              [status |-> 200, body |-> [users |-> "..."], db |-> TRUE,
                               raised |-> FALSE]
                         [] outcome = "http_error" ->
                              [status |-> 404, body |-> [detail |-> "User not found"],
                               db |-> TRUE, raised |-> FALSE]
                         [] OTHER ->
                              [status |-> 500, body |-> [detail |-> "Internal Server Error"],
                               db |-> TRUE, raised |-> TRUE]
        ELSE IF onPath # {} THEN
            [status |-> 405, body |-> [detail |-> "Method Not Allowed"], db |-> FALSE,
             raised |-> FALSE]
        ELSE
            [status |-> 404, body |-> [detail |-> "Not Found"], db |-> FALSE,
             raised |-> FALSE]

NoCorsHeaders == [acao |-> "", acac |-> FALSE, acam |-> FALSE, acah |-> FALSE]

\* CORSMiddleware with options cfg around the application below it, whose
\* response is inner.
\*  - no Origin header: the request passes through, no header is added;
\*  - OPTIONS with Access-Control-Request-Method: the preflight response,
\*    answered by the middleware itself;
\*  - otherwise the response of the application with the simple headers
\*    added; an exception raised below passes through, no response is sent
\*    here.
Cors(cfg, req, inner) ==
    LET allOrigins == "*" \in cfg.allow_origins
        allowed == allOrigins \/ req.origin \in cfg.allow_origins
    IN  IF req.origin = "" THEN inner
        ELSE IF req.method = "OPTIONS" /\ req.acr # "none" THEN
            [status |-> IF allowed THEN 200 ELSE 400,
             body |-> [text |-> IF allowed THEN "OK" ELSE "Disallowed CORS origin"],
             db |-> FALSE, raised |-> FALSE,
             acao |-> IF ~allowed THEN ""
                      ELSE IF ~allOrigins \/ cfg.allow_credentials THEN req.origin
                      ELSE "*",
             acac |-> cfg.allow_credentials,
             acam |-> "*" \in cfg.allow_methods,
             acah |-> "*" \in cfg.allow_headers /\ req.acr = "method+headers"]
        ELSE IF inner.raised THEN inner
        ELSE [acao |-> IF allOrigins /\ req.cookie THEN req.origin
                       ELSE IF allOrigins THEN "*"
                       ELSE IF allowed THEN req.origin
                       ELSE inner.acao,
              acac |-> cfg.allow_credentials \/ inner.acac,
              acam |-> inner.acam,
              acah |-> inner.acah] @@ inner

\* The whole stack of the application a, outermost first: the server-error
\* middleware (an unhandled exception becomes a bare 500), the user
\* middleware (CORS), the router.
RECURSIVE Through(_, _, _)
Through(mw, req, inner) ==
    IF mw = <<>> THEN inner @@ NoCorsHeaders
    ELSE Cors(Head(mw), req, Through(Tail(mw), req, inner))

Respond(a, req, outcome) ==
    [req |-> req] @@ Through(a.middleware, req, Dispatch(a, req, outcome))

\* ------------------------------------------------------------------ state
VARIABLES
    pc,            \* where each process is
    app,           \* the module-level name app of each process
    engine,        \* whether each process has database.engine bound (line 6)
    environ,       \* PORT in os.environ
    dotenv,        \* PORT in the .env file load_dotenv reads
    run,           \* the arguments uvicorn.run was called with
    sock,          \* the socket the main process bound
    listening,     \* the worker accepts connections on it
    schema,        \* the database: the state of each table
    epoch,         \* how many workers the supervisor has spawned
    life,          \* the lifespan of the current worker
    signal,        \* what the supervisor is asking of the worker
    response,      \* the response the worker is sending, if any
    exitCode,      \* exit status of each process, -1 while it runs
    error,         \* what ended each process, "" if nothing
    startupFailed  \* a lifespan startup has failed in this run

vars == <<pc, app, engine, environ, dotenv, run, sock, listening, schema, epoch,
          life, signal, response, exitCode, error, startupFailed>>

NoRun == [called |-> FALSE, app |-> "", host |-> "", port |-> 0, reload |-> FALSE]
NoSock == [bound |-> FALSE, host |-> "", port |-> 0]
NewLife == [startups |-> 0, completed |-> FALSE, teardowns |-> 0, creates |-> 0]

\* PORT values the lifecycle is explored with, and all PORT strings up to
\* MaxLen for the entry point.
FewPorts == {Unset, SetTo(<<"7", "0">>), SetTo(<<"x">>)}
AllPorts == {Unset} \cup {SetTo(s) : s \in StringsUpTo(MaxLen)}
DotenvPorts == {Unset, SetTo(<<"7">>)}

InitWith(envs, dotenvs, schemas) ==
    /\ pc = [p \in Procs |-> IF p = "main" THEN "start" ELSE "none"]
    /\ app = [p \in Procs |-> NoApp]
    /\ engine = [p \in Procs |-> FALSE]
    /\ environ \in envs
    /\ dotenv \in dotenvs
    /\ run = NoRun
    /\ sock = NoSock
    /\ listening = FALSE
    /\ schema \in schemas
    /\ epoch = 0
    /\ life = NewLife
    /\ signal = "none"
    /\ response = {}
    /\ exitCode = [p \in Procs |-> -1]
    /\ error = [p \in Procs |-> ""]
    /\ startupFailed = FALSE

Init == InitWith(FewPorts, {Unset}, [Tables -> TableStates])
InitPort == InitWith(AllPorts, DotenvPorts, {[t \in Tables |-> "absent"]})

Exit(p, code, why) ==
    /\ pc' = [pc EXCEPT ![p] = "exited"]
    /\ exitCode' = [exitCode EXCEPT ![p] = code]
    /\ error' = [error EXCEPT ![p] = why]

Goto(p, where) ==
    /\ pc' = [pc EXCEPT ![p] = where]
    /\ UNCHANGED <<exitCode, error>>

\* ------------------------------------------- the module body, lines 1-43
\* Lines 1-10: the imports (routers.users, database.engine/Base), which may
\* fail, and load_dotenv(), which sets PORT from .env when it is not set.
Import(p) ==
    /\ pc[p] = "start"
    /\ \E ok \in BOOLEAN :
         IF ok THEN
            /\ engine' = [engine EXCEPT ![p] = TRUE]
            /\ environ' = IF environ.set THEN environ ELSE dotenv
            /\ Goto(p, "imported")
         ELSE
            /\ Exit(p, 1, "ImportError")
            /\ UNCHANGED <<engine, environ>>
    /\ UNCHANGED <<app, dotenv, run, sock, listening, schema, epoch, life, signal, response,
                   startupFailed>>

ModuleStep(p, from, to, newApp) ==
    /\ pc[p] = from
    /\ app' = [app EXCEPT ![p] = newApp]
    /\ Goto(p, to)
    /\ UNCHANGED <<engine, environ, dotenv, run, sock, listening, schema, epoch, life,
                   signal, response, startupFailed>>

\* Lines 18-23.
Build(p) == ModuleStep(p, "imported", "app", FastAPI)
\* Lines 26-32.
AddCors(p) == ModuleStep(p, "app", "cors", add_middleware(app[p], CorsConfig))
\* Line 35.
IncludeRouter(p) ==
    ModuleStep(p, "cors", "router", include_router(app[p], users_router, ApiPrefix))
\* Lines 37-39.
RegisterRoot(p) == ModuleStep(p, "router", "root", get(app[p], "/", "root"))
\* Lines 41-43.
RegisterHealth(p) ==
    ModuleStep(p, "root", "module", get(app[p], "/health", "health_check"))

\* ------------------------------------------- the entry point, lines 45-51
\* Line 49 and the call of uvicorn.run: int() of a string that is no integer
\* raises ValueError, which nothing catches.
M_ParsePort ==
    /\ pc["main"] = "module"
    /\ LET r == PortArg(environ)
       IN  IF r.ok THEN
              /\ run' = [called |-> TRUE, app |-> "main:app", host |-> Host,
                         port |-> r.value, reload |-> TRUE]
              /\ Goto("main", "run")
           ELSE
              /\ Exit("main", 1, "ValueError")
              /\ UNCHANGED run
    /\ UNCHANGED <<app, engine, environ, dotenv, sock, listening, schema, epoch, life,
                   signal, response, startupFailed>>

\* uvicorn.run with reload=True binds the socket in the calling process; a
\* port outside 0..65535 or an address in use ends the process.
M_Bind ==
    /\ pc["main"] = "run"
    /\ \E free \in BOOLEAN :
         IF free /\ run.port \in 0..65535 THEN
            /\ sock' = [bound |-> TRUE, host |-> run.host, port |-> run.port]
            /\ Goto("main", "bound")
         ELSE
            /\ Exit("main", 1, "OSError")
            /\ UNCHANGED sock
    /\ UNCHANGED <<app, engine, environ, dotenv, run, listening, schema, epoch, life,
                   signal, response, startupFailed>>

\* The supervisor starts a worker process: a new interpreter, which imports
\* main again.
StartWorker ==
    /\ pc' = [pc EXCEPT !["main"] = "supervising", !["worker"] = "start"]
    /\ app' = [app EXCEPT !["worker"] = NoApp]
    /\ engine' = [engine EXCEPT !["worker"] = FALSE]
    /\ exitCode' = [exitCode EXCEPT !["worker"] = -1]
    /\ error' = [error EXCEPT !["worker"] = ""]
    /\ epoch' = epoch + 1
    /\ life' = NewLife
    /\ response' = {}
    /\ signal' = "none"
    /\ listening' = FALSE
    /\ UNCHANGED <<environ, dotenv, run, sock, schema, startupFailed>>

M_Spawn ==
    /\ pc["main"] = "bound"
    /\ StartWorker

\* A watched file changed: the supervisor restarts the worker.
M_FileChanged ==
    /\ pc["main"] = "supervising"
    /\ signal = "none"
    /\ pc["worker"] \in {"serving", "exited"}
    /\ epoch < MaxWorkers
    /\ signal' = "restart"
    /\ UNCHANGED <<pc, app, engine, environ, dotenv, run, sock, listening, schema, epoch,
                   life, response, exitCode, error, startupFailed>>

M_Restart ==
    /\ pc["main"] = "supervising"
    /\ signal = "restart"
    /\ pc["worker"] = "exited"
    /\ StartWorker

\* SIGINT/SIGTERM: the supervisor stops the worker, and uvicorn.run returns.
M_Interrupt ==
    /\ pc["main"] = "supervising"
    /\ signal = "none"
    /\ pc["worker"] \in {"serving", "exited"}
    /\ signal' = "stop"
    /\ UNCHANGED <<pc, app, engine, environ, dotenv, run, sock, listening, schema, epoch,
                   life, response, exitCode, error, startupFailed>>

\* uvicorn.run returns; with reload it does not exit with the startup-failure
\* status, and the module ends: exit status 0.
M_Return ==
    /\ pc["main"] = "supervising"
    /\ signal = "stop"
    /\ pc["worker"] = "exited"
    /\ Exit("main", 0, error["main"])
    /\ UNCHANGED <<app, engine, environ, dotenv, run, sock, listening, schema, epoch,
                   life, signal, response, startupFailed>>

\* ------------------------------------------------ the worker, serving app
\* The server enters the lifespan of the imported app: the code of lines
\* 14-15 starts to run.  An app without a lifespan has no startup to run.
W_StartupEnter ==
    /\ pc["worker"] = "module"
    /\ IF app["worker"].lifespan THEN
          /\ life' = [life EXCEPT !.startups = @ + 1]
          /\ Goto("worker", "startup")
       ELSE
          /\ Goto("worker", "started")
          /\ UNCHANGED life
    /\ UNCHANGED <<app, engine, environ, dotenv, run, sock, listening, schema, epoch,
                   signal, response, startupFailed>>

\* The code before the yield returns, or raises: the server then logs the
\* failure and the worker ends without serving.
W_StartupReturn ==
    /\ pc["worker"] = "startup"
    /\ \E up \in BOOLEAN :
         LET r == RunOps(lifespan.startup, schema, up)
         IN  /\ schema' = r.schema
             /\ IF r.ok THEN
                   /\ life' = [life EXCEPT !.creates = @ + r.creates, !.completed = TRUE]
                   /\ Goto("worker", "started")
                   /\ UNCHANGED startupFailed
                ELSE
                   /\ life' = [life EXCEPT !.creates = @ + r.creates]
                   /\ Exit("worker", 0, r.error)
                   /\ startupFailed' = TRUE
    /\ UNCHANGED <<app, engine, environ, dotenv, run, sock, listening, epoch, signal, response>>

\* Startup is complete: the server starts to accept on the inherited socket.
W_Listen ==
    /\ pc["worker"] = "started"
    /\ sock.bound
    /\ listening' = TRUE
    /\ Goto("worker", "serving")
    /\ UNCHANGED <<app, engine, environ, dotenv, run, sock, schema, epoch, life, signal,
                   response, startupFailed>>

\* One request is accepted and answered.
W_Handle ==
    /\ pc["worker"] = "serving"
    /\ listening
    /\ response = {}
    /\ \E req \in Requests, outcome \in UsersOutcomes :
          /\ outcome # "ok" => req.path = ApiPrefix \o "/users"
          /\ response' = {Respond(app["worker"], req, outcome)}
    /\ UNCHANGED <<pc, app, engine, environ, dotenv, run, sock, listening, schema, epoch,
                   life, signal, exitCode, error, startupFailed>>

\* The response has been sent.
W_Sent ==
    /\ response # {}
    /\ response' = {}
    /\ UNCHANGED <<pc, app, engine, environ, dotenv, run, sock, listening, schema, epoch,
                   life, signal, exitCode, error, startupFailed>>

\* The worker is told to stop: it closes its listener first.
W_StopAccepting ==
    /\ pc["worker"] = "serving"
    /\ signal # "none"
    /\ listening' = FALSE
    /\ Goto("worker", "stopping")
    /\ UNCHANGED <<app, engine, environ, dotenv, run, sock, schema, epoch, life, signal,
                   response, startupFailed>>

\* Once the open connections are done the lifespan is resumed after the yield
\* (line 16), and the worker ends.
W_Teardown ==
    /\ pc["worker"] = "stopping"
    /\ response = {}
    /\ \E up \in BOOLEAN :
         LET r == RunOps(lifespan.teardown, schema, up)
         IN  IF app["worker"].lifespan THEN
                /\ schema' = r.schema
                /\ life' = [life EXCEPT !.teardowns = @ + 1, !.creates = @ + r.creates]
             ELSE UNCHANGED <<schema, life>>
    /\ Exit("worker", 0, "")
    /\ UNCHANGED <<app, engine, environ, dotenv, run, sock, listening, epoch, signal, response,
                   startupFailed>>

\* ---------------------------------------------------------- specifications
ModuleBody ==
    \E p \in Procs :
        \/ Import(p)
        \/ Build(p)
        \/ AddCors(p)
        \/ IncludeRouter(p)
        \/ RegisterRoot(p)
        \/ RegisterHealth(p)

\* The entry point up to the first worker listening.
NextPort ==
    \/ ModuleBody
    \/ M_ParsePort
    \/ M_Bind
    \/ M_Spawn
    \/ W_StartupEnter
    \/ W_StartupReturn
    \/ W_Listen

Next ==
    \/ NextPort
    \/ M_FileChanged
    \/ M_Restart
    \/ M_Interrupt
    \/ M_Return
    \/ W_Handle
    \/ W_Sent
    \/ W_StopAccepting
    \/ W_Teardown

Spec == Init /\ [][Next]_vars
SpecPort == InitPort /\ [][NextPort]_vars

\* ------------------------------------------------------ lifecycle states
\* The state of the application the current worker holds.
AppState ==
    CASE pc["worker"] \in {"none", "start", "imported", "app", "cors", "router", "root"} ->
            "Unbuilt"
      [] pc["worker"] \in {"module", "startup", "started"} -> "Built"
      [] pc["worker"] = "serving" -> "Serving"
      [] OTHER -> "Terminated"

Rank(st) ==
    CASE st = "Unbuilt" -> 0
      [] st = "Built" -> 1
      [] st = "Serving" -> 2
      [] OTHER -> 3

IsPreflight(req) == req.method = "OPTIONS" /\ req.acr # "none" /\ req.origin # ""

HeadersOf(r) == [acao |-> r.acao, acac |-> r.acac, acam |-> r.acam, acah |-> r.acah]

\* A decimal numeral as str(n) writes it: digits without a leading zero,
\* after an optional minus sign.
IsNumeral(s) ==
    LET d == IF s # <<>> /\ Head(s) = "-" THEN Tail(s) ELSE s
    IN  /\ AllDigits(d)
        /\ Len(d) > 1 => d[1] # "0"
        /\ s # <<>> /\ Head(s) = "-" => d[1] # "0"

\* ----------------------------------------------------------------- claims

\* C1: no request is accepted or answered before the lifespan startup (the
\* create_all of line 15) has returned, and none while it is pending.
C1_NoRequestBeforeStartup ==
    /\ (listening \/ response # {}) =>
          life.completed /\ life.startups = 1 /\ life.creates = 1
    /\ pc["worker"] = "startup" => ~listening /\ response = {}

C1_Witness ==
    /\ response # {}
    /\ life.completed
    /\ pc["worker"] = "serving"

\* C2: once a lifespan startup has failed the application is never serving,
\* nothing is retried, and the entry point exits with a non-zero status.
C2_StartupFailureIsFatal ==
    startupFailed =>
        /\ pc["worker"] = "exited"
        /\ ~listening
        /\ response = {}
        /\ pc["main"] = "exited" => exitCode["main"] # 0

C4_StatusEndpoints ==
    \A r \in response :
        /\ r.req.method = "GET" /\ r.req.path = "/" =>
              /\ r.status = 200
              /\ r.body = [message |-> "FastAPI Backend is running!"]
              /\ ~r.raised
        /\ r.req.method = "GET" /\ r.req.path = "/health" =>
              /\ r.status = 200
              /\ r.body = [status |-> "OK", message |-> "API is healthy"]
              /\ ~r.raised

C4_Witness ==
    \E r \in response :
        /\ r.req.method = "GET"
        /\ r.req.path = "/"
        /\ r.req.query = "x=1"
        /\ r.req.origin # ""
        /\ r.req.cookie
        /\ r.status = 200
        /\ epoch = 2

\* C5: uvicorn.run is given host 0.0.0.0 and the port PORT denotes: 8000
\* when PORT is unset, n when PORT is the decimal numeral of n; the socket
\* is bound to that host and port.
C5_PortFromEnv ==
    /\ run.called =>
          /\ run.host = "0.0.0.0"
          /\ ~environ.set => run.port = 8000
          /\ environ.set /\ IsNumeral(environ.val) => DecStr(run.port) = environ.val
    /\ sock.bound => run.called /\ sock.host = "0.0.0.0" /\ sock.port = run.port
    /\ listening => sock.bound

C5_Witness ==
    /\ listening
    /\ environ = SetTo(<<"7", "0">>)
    /\ sock.port = 70

\* C6: a PORT that is set but no integer does not end the entry point; the
\* port falls back to 8000.
C6_FallbackOnBadPort ==
    environ.set /\ ~IsIntLiteral(environ.val) =>
        /\ error["main"] # "ValueError"
        /\ run.called => run.port = 8000

\* C7: in a worker the startup runs at most once, after the socket is bound
\* and before the worker listens; the teardown runs at most once, only after
\* the worker stopped listening, and once in every worker that served and
\* ended; create_all runs in the startup and nowhere else.
C7_HookOncePerRun ==
    /\ life.startups <= 1 /\ life.teardowns <= 1 /\ life.creates <= 1
    /\ life.startups = 1 => sock.bound /\ Rank(AppState) >= 1
    /\ listening => life.startups = 1 /\ life.completed
    /\ life.teardowns = 1 => ~listening /\ pc["worker"] = "exited" /\ life.completed
    /\ pc["worker"] = "exited" /\ life.completed => life.teardowns = 1
    /\ AppState = "Unbuilt" \/ pc["worker"] \in {"module", "startup"} => life.creates = 0
    /\ life.completed => life.creates = 1

C7_Witness ==
    /\ pc["worker"] = "exited"
    /\ life.startups = 1
    /\ life.teardowns = 1
    /\ life.creates = 1

\* C8: the application of a worker only moves forward through Unbuilt, Built,
\* Serving, Terminated; it becomes Serving from Built only, with the startup
\* completed; and whenever it is Serving the CORS middleware, the users
\* routes under /api/v1 and both status routes are in place.
C8_Lifecycle ==
    /\ [](AppState = "Serving" => Configured(app["worker"]) /\ life.completed)
    /\ [][epoch' = epoch =>
            /\ Rank(AppState') >= Rank(AppState)
            /\ AppState = "Serving" => AppState' \in {"Serving", "Terminated"}
            /\ AppState' = "Serving" /\ AppState # "Serving" =>
                  AppState = "Built" /\ life.completed]_vars

C8_Witness ==
    /\ AppState = "Terminated"
    /\ life.completed
    /\ Configured(app["worker"])
    /\ epoch = 2

\* C9: the startup leaves every table that already exists as it is, creates
\* the missing ones, and fails only when the database cannot be reached,
\* never because tables exist.
C9_StartupIdempotent ==
    [][pc["worker"] = "startup" /\ pc'["worker"] # "startup" =>
          /\ \A t \in Tables : schema[t] # "absent" => schema'[t] = schema[t]
          /\ pc'["worker"] = "started" => \A t \in Tables : schema'[t] # "absent"
          /\ pc'["worker"] = "exited" => error'["worker"] = "OperationalError"]_vars

C9_Witness ==
    /\ epoch = 2
    /\ pc["worker"] = "serving"
    /\ \A t \in Tables : schema[t] = "legacy"

\* C10: answering GET / or GET /health changes neither the application
\* (routes, middleware), nor the engine, nor the schema, and touches no
\* database; while the application serves, its routes, middleware and
\* engine stay as the module body left them.
C10_StatusEndpointsFrame ==
    /\ [][response = {} /\ response' # {}
            /\ (\A r \in response' : r.req.method = "GET" /\ r.req.path \in {"/", "/health"})
          => /\ UNCHANGED <<app, engine, schema, life>>
             /\ \A r \in response' : ~r.db]_vars
    /\ [][AppState = "Serving" /\ AppState' = "Serving" => UNCHANGED <<app, engine>>]_vars
    /\ [](AppState = "Serving" => engine["worker"] /\ Configured(app["worker"]))

C10_Witness ==
    \E r \in response :
        /\ r.req.method = "GET"
        /\ r.req.path = "/health"
        /\ r.status = 200
        /\ ~r.db
        /\ \E t \in Tables : schema[t] = "legacy"

====
